---- MODULE Spec2Model ----
(***************************************************************************)
(* Model of the LazyTools wireframe builder                                *)
(*   src/profiled_wireframe.py            (SQUARE, ROUND, TRIANGLE)        *)
(*   src/custom_wireframe_with_profiles.py (SQUARE, ROUND)                 *)
(* The two files hold the same extrude_profiles_along_edges line for line  *)
(* and differ in create_profile only; the variable impl says which file    *)
(* is running.                                                             *)
(*                                                                         *)
(* Coordinates are integer triples <<x, y, z>> in lattice units.  Input    *)
(* edges are axis-aligned or of zero length, so that the rotation the code *)
(* asks mathutils for (Vector.rotation_difference) is a signed permutation *)
(* matrix and the transformed profiles are computed exactly.               *)
(***************************************************************************)
EXTENDS Integers, Sequences, FiniteSets, TLC

(***************************************************************************)
(* Bounds of the model                                                     *)
(***************************************************************************)
\* longest input edge list
MaxEdges == 2

(***************************************************************************)
(* Program constants                                                       *)
(***************************************************************************)
\* default of the segments parameter
DefaultSegments == 12
\* smallest segment count the UI property allows
MinSegments == 3
\* len(corner_verts) > 3 : the hull needs more than this many vertices
HullMinExclusive == 3
\* len(corner_profiles) > 1 : a corner is closed with more than this many profiles
CornerMinExclusive == 1

(***************************************************************************)
(* Vectors (mathutils.Vector) and matrices (mathutils.Matrix)              *)
(***************************************************************************)
VAdd(a, b) == <<a[1] + b[1], a[2] + b[2], a[3] + b[3]>>

VSub(a, b) == <<a[1] - b[1], a[2] - b[2], a[3] - b[3]>>

VDot(a, b) == a[1] * b[1] + a[2] * b[2] + a[3] * b[3]

VCross(a, b) ==
  <<a[2] * b[3] - a[3] * b[2], a[3] * b[1] - a[1] * b[3], a[1] * b[2] - a[2] * b[1]>>

VZero == <<0, 0, 0>>

\* Matrix @ Vector for a 3x3 matrix given by its rows
MatVec(m, p) == <<VDot(m[1], p), VDot(m[2], p), VDot(m[3], p)>>

\* squared Euclidean distance
DistSq(a, b) == VDot(VSub(a, b), VSub(a, b))

Sign(n) == IF n > 0 THEN 1 ELSE IF n < 0 THEN -1 ELSE 0

\* Vector.normalized() of an axis-aligned vector; the zero vector is left as it is
\* (mathutils: "normalizing a vector where all values are zero has no effect")
Normalized(v) == <<Sign(v[1]), Sign(v[2]), Sign(v[3])>>

IdentityMatrix == <<<<1, 0, 0>>, <<0, 1, 0>>, <<0, 0, 1>>>>

\* edge_direction.rotation_difference(z_axis).to_matrix(): the shortest rotation
\* taking the unit vector d onto +Z.  For d = +Z and for the zero vector the
\* quaternion is the identity; for d = -Z it is the half turn about (-1,-1,0).
RotationDifferenceToZ(d) ==
  CASE d = <<1, 0, 0>>  -> <<<<0, 0, -1>>, <<0, 1, 0>>, <<1, 0, 0>>>>
    [] d = <<-1, 0, 0>> -> <<<<0, 0, 1>>, <<0, 1, 0>>, <<-1, 0, 0>>>>
    [] d = <<0, 1, 0>>  -> <<<<1, 0, 0>>, <<0, 0, -1>>, <<0, 1, 0>>>>
    [] d = <<0, -1, 0>> -> <<<<1, 0, 0>>, <<0, 0, 1>>, <<0, -1, 0>>>>
    [] d = <<0, 0, -1>> -> <<<<0, 1, 0>>, <<1, 0, 0>>, <<0, 0, -1>>>>
    [] OTHER            -> IdentityMatrix

(***************************************************************************)
(* create_profile                                                          *)
(***************************************************************************)
\* round(100 * cos(2 pi i / n)) and round(100 * sin(2 pi i / n)), i = 0 .. n-1
CosTable ==
  [n \in 3..8 |->
     CASE n = 3 -> <<100, -50, -50>>
       [] n = 4 -> <<100, 0, -100, 0>>
       [] n = 5 -> <<100, 31, -81, -81, 31>>
       [] n = 6 -> <<100, 50, -50, -100, -50, 50>>
       [] n = 7 -> <<100, 62, -22, -90, -90, -22, 62>>
       [] n = 8 -> <<100, 71, 0, -71, -100, -71, 0, 71>>]

SinTable ==
  [n \in 3..8 |->
     CASE n = 3 -> <<0, 87, -87>>
       [] n = 4 -> <<0, 100, 0, -100>>
       [] n = 5 -> <<0, 95, 59, -59, -95>>
       [] n = 6 -> <<0, 87, 87, 0, -87, -87>>
       [] n = 7 -> <<0, 78, 97, 43, -43, -97, -78>>
       [] n = 8 -> <<0, 71, 100, 71, 0, -71, -100, -71>>]

\* c/100 * s rounded to the lattice
Scaled(c, s) == (c * s + 50) \div 100

SquareVerts(s) == <<<<-s, -s, 0>>, <<s, -s, 0>>, <<s, s, 0>>, <<-s, s, 0>>>>

RoundVerts(s, n) ==
  [i \in 1..n |-> <<Scaled(CosTable[n][i], s), Scaled(SinTable[n][i], s), 0>>]

TriangleVerts(s) == <<<<0, s, 0>>, <<-s, -s, 0>>, <<s, -s, 0>>>>

\* how a create_profile call ends: with the list of vertices, or with
\* ValueError("Unsupported profile type")
Returned(verts) == [ok |-> TRUE, verts |-> verts]

Raised == [ok |-> FALSE, verts |-> <<>>]

\* create_profile of src/profiled_wireframe.py
\* create_profile of profiled_wireframe.py with the TRIANGLE branch returning the
\* square
create_profile_no_triangle(shape_type, s, n) ==
  IF shape_type = "SQUARE" THEN Returned(SquareVerts(s))
  ELSE IF shape_type = "ROUND" THEN Returned(RoundVerts(s, n))
  ELSE IF shape_type = "TRIANGLE" THEN Returned(SquareVerts(s))
  ELSE Raised

create_profile_profiled(shape_type, s, n) ==
  CASE shape_type = "SQUARE"   -> Returned(SquareVerts(s))
    [] shape_type = "ROUND"    -> Returned(RoundVerts(s, n))
    [] shape_type = "TRIANGLE" -> Returned(TriangleVerts(s))
    [] OTHER                   -> Raised

\* create_profile of src/custom_wireframe_with_profiles.py
create_profile_custom(shape_type, s, n) ==
  CASE shape_type = "SQUARE" -> Returned(SquareVerts(s))
    [] shape_type = "ROUND"  -> Returned(RoundVerts(s, n))
    [] OTHER                 -> Raised

create_profile(file, shape_type, s, n) ==
  IF file = "profiled_wireframe"
  THEN create_profile_profiled(shape_type, s, n)
  ELSE create_profile_custom(shape_type, s, n)

(***************************************************************************)
(* bmesh.ops.convex_hull as the code calls it: new triangles over the      *)
(* input vertices, no new vertex.  A triple of input vertices is a face of *)
(* the hull when it is not collinear and every input vertex lies on one    *)
(* closed side of its plane; coplanar hull points give every such triple.  *)
(***************************************************************************)
SeqToSet(s) == {s[i] : i \in 1..Len(s)}

RECURSIVE Flatten(_)
Flatten(lists) ==
  IF lists = <<>> THEN <<>> ELSE Head(lists) \o Flatten(Tail(lists))

\* the triples of positions p < q < r of an input of n vertices, in lexicographic order
PositionTriples(n) ==
  LET Row(p, q) == [k \in 1..(n - q) |-> <<p, q, q + k>>]
      Rows(p) == Flatten([j \in 1..(n - p - 1) |-> Row(p, p + j)])
  IN Flatten([p \in 1..(n - 2) |-> Rows(p)])

\* the signed volumes of a triple of points with every point of the input
TripleSides(pts, t) ==
  LET a == pts[t[1]]
      normal == VCross(VSub(pts[t[2]], a), VSub(pts[t[3]], a))
  IN IF normal = VZero THEN {}
     ELSE {VDot(normal, VSub(pts[d], a)) : d \in 1..Len(pts)}

IsHullFace(pts, t) ==
  LET sides == TripleSides(pts, t)
  IN /\ sides # {}
     /\ \/ \A x \in sides : x <= 0
        \/ \A x \in sides : x >= 0

\* the face wound so that the rest of the input lies behind it
HullWinding(pts, t) ==
  IF \A x \in TripleSides(pts, t) : x <= 0 THEN t ELSE <<t[1], t[3], t[2]>>

\* the input vertices that stand for their position: of several input vertices at
\* one coordinate the hull uses the earliest
HullPoints(co, input) ==
  LET Earliest(k) == \A j \in 1..(k - 1) : co[input[j]] # co[input[k]]
      idx == SelectSeq([k \in 1..Len(input) |-> k], Earliest)
  IN [k \in 1..Len(idx) |-> input[idx[k]]]

convex_hull(co, input) ==
  LET used == HullPoints(co, input)
      pts == [k \in 1..Len(used) |-> co[used[k]]]
      OnHull(t) == IsHullFace(pts, t)
      hull == SelectSeq(PositionTriples(Len(used)), OnHull)
  IN [k \in 1..Len(hull) |->
        LET t == HullWinding(pts, hull[k]) IN <<used[t[1]], used[t[2]], used[t[3]]>>]

(***************************************************************************)
(* bmesh.ops.remove_doubles as the code calls it (find doubles, then weld):*)
(* the vertices are visited in index order; a vertex that is not yet a     *)
(* double keeps its place and takes every later vertex within dist that is *)
(* not yet a double.  Faces are rebuilt over the kept vertices; a face     *)
(* left with fewer than 3 distinct vertices, or equal to a face already    *)
(* there, is not created again.                                            *)
(* A mesh is [co: coordinates by vertex id, alive: the ids that exist,     *)
(* faces: the faces as sequences of ids].                                  *)
(***************************************************************************)
\* the members of a set of vertex ids, in index order
InIndexOrder(S, n) ==
  LET Member(i) == i \in S
  IN SelectSeq([i \in 1..n |-> i], Member)

RECURSIVE FindDoubles(_, _, _, _, _)
FindDoubles(order, k, co, dist, map) ==
  IF k > Len(order) THEN map
  ELSE LET v == order[k]
           found == {order[j] : j \in {j \in (k + 1)..Len(order) :
                        /\ order[j] \notin DOMAIN map
                        /\ DistSq(co[v], co[order[j]]) <= dist * dist}}
       IN IF v \in DOMAIN map
          THEN FindDoubles(order, k + 1, co, dist, map)
          ELSE FindDoubles(order, k + 1, co, dist,
                 [w \in DOMAIN map \cup found |-> IF w \in found THEN v ELSE map[w]])

Target(map, v) == IF v \in DOMAIN map THEN map[v] ELSE v

\* the loop of a face with its doubles replaced and repeated vertices left out
RebuildFace(map, f) ==
  LET g == [i \in 1..Len(f) |-> Target(map, f[i])]
      First(i) == \A j \in 1..(i - 1) : g[j] # g[i]
      idx == SelectSeq([i \in 1..Len(g) |-> i], First)
  IN [k \in 1..Len(idx) |-> g[idx[k]]]

\* the faces after the weld: a rebuilt face is kept when it has at least 3 vertices
\* and no earlier face has the same vertices
RebuildFaces(map, faces) ==
  LET g == [k \in 1..Len(faces) |-> RebuildFace(map, faces[k])]
      Kept(k) ==
        /\ Len(g[k]) >= 3
        /\ \A j \in 1..(k - 1) : Len(g[j]) < 3 \/ SeqToSet(g[j]) # SeqToSet(g[k])
      idx == SelectSeq([k \in 1..Len(g) |-> k], Kept)
  IN [k \in 1..Len(idx) |-> g[idx[k]]]

\* weld_verts with each kept vertex moved to the place of its last double
weld_verts_moved(m, map) ==
  [co |-> [v \in 1..Len(m.co) |->
             IF \E w \in DOMAIN map : map[w] = v
             THEN m.co[CHOOSE w \in DOMAIN map :
                         map[w] = v /\ \A x \in DOMAIN map : map[x] = v => x <= w]
             ELSE m.co[v]],
   alive |-> m.alive \ DOMAIN map,
   faces |-> RebuildFaces(map, m.faces)]

weld_verts(m, map) ==
  [co |-> m.co, alive |-> m.alive \ DOMAIN map, faces |-> RebuildFaces(map, m.faces)]

remove_doubles(m, verts, dist) ==
  weld_verts(m, FindDoubles(verts, 1, m.co, dist, <<>>))

\* merge_prism_vertices with the threshold not passed on: only coincident vertices
\* are merged
merge_prism_vertices_exact(m, threshold) ==
  remove_doubles(m, InIndexOrder(m.alive, Len(m.co)), 0)

\* merge_prism_vertices: remove_doubles(bm, verts=bm.verts, dist=merge_threshold)
merge_prism_vertices(m, threshold) ==
  remove_doubles(m, InIndexOrder(m.alive, Len(m.co)), threshold)

(***************************************************************************)
(* State                                                                   *)
(***************************************************************************)
VARIABLES
  pc,                     \* the statement of extrude_profiles_along_edges to run next
  failed,                 \* "" or the phase whose exception ended the call
  impl,                   \* which of the two files is running
  profile_type, size, segments, delete_original_faces, merge_threshold,
  mesh_obj,               \* the input object: verts, edges, faces, scale, selected
  mesh_obj0,              \* mesh_obj as it was when the call began
  mode,                   \* bpy.context.mode
  active,                 \* bpy.context.view_layer.objects.active
  scene,                  \* bpy.data.meshes, bpy.data.objects, collection.objects
  new_mesh,               \* the data of new_obj
  new_bm,                 \* the BMesh being built
  profile_shape,
  profiles_at_corners,    \* dict in insertion order: <<[key, profiles], ...>>
  edge_i, corner_i,       \* positions of the two loops
  hull_calls,             \* every bmesh.ops.convex_hull call: corner, input, faces
  phase_log,              \* the phases completed so far, in order
  weld_runs,              \* how many times merge_prism_vertices has run
  objs,                   \* drop_to_floor.py: the objects of the scene, by name
  op,                     \* the properties of OBJECT_OT_DropToFloorOperator
  call                    \* execute and drop_to_geometry_below: locals and position

params == <<impl, profile_type, size, segments, delete_original_faces, merge_threshold>>

host == <<mode, active, scene>>

loops == <<edge_i, corner_i>>

drop == <<objs, op, call>>

vars == <<pc, failed, params, mesh_obj, mesh_obj0, host, new_mesh, new_bm,
          profile_shape, profiles_at_corners, loops, hull_calls, phase_log, weld_runs,
          drop>>

(***************************************************************************)
(* Inputs                                                                  *)
(***************************************************************************)
PO == <<0, 0, 0>>

PNear == <<1, 0, 0>>

PX == <<4, 0, 0>>

PY == <<0, 4, 0>>

PZ == <<0, 0, 4>>

\* the edges an input mesh is made of, as (v1.co, v2.co): axis-aligned segments in
\* the directions +x, +y, +z, -z, one of them no longer than the merge threshold,
\* and an edge whose two vertices are at one coordinate
EdgeOptions ==
  {<<PO, PX>>, <<PO, PY>>, <<PO, PZ>>, <<PZ, PO>>, <<PO, PNear>>, <<PO, PO>>}

\* object scales: the identity, and one that flattens the mesh onto z = 0 (the
\* edges along z then have both vertices at one coordinate)
Scales == {<<1, 1, 1>>, <<1, 1, 0>>}

\* (size, merge_threshold) in lattice units: a threshold below the spacing of the
\* profile's points, and one that reaches from one point of the profile to the next
SizeThresholds == {<<1, 1>>, <<1, 2>>}

\* number of faces of the input mesh
InFaceCounts == {1}

Impls == {"profiled_wireframe", "custom_wireframe_with_profiles"}

Tags == {"SQUARE", "ROUND", "TRIANGLE", "HEXAGON"}

\* segment counts given with ROUND: the least the UI allows, and 0, which a direct
\* call may pass and which makes the profile empty (range(0))
RoundSegments == {0, 3}

\* the calls (file, profile_type, segments): every tag through profiled_wireframe.py,
\* a segment count given with ROUND and the default otherwise; through
\* custom_wireframe_with_profiles.py, whose pipeline is the same text, one tag it
\* supports and one it does not
Calls ==
  ({"profiled_wireframe"} \X {"ROUND"} \X RoundSegments)
    \cup ({"profiled_wireframe"} \X (Tags \ {"ROUND"}) \X {DefaultSegments})
    \cup ({"custom_wireframe_with_profiles"} \X {"SQUARE", "TRIANGLE"} \X {DefaultSegments})

\* a mesh of the given edges; the code reads the coordinates of an edge's two
\* vertices only, so every edge is given its own two vertices
MeshOf(pairs, nfaces, scale) ==
  [verts |-> [i \in 1..(2 * Len(pairs)) |->
                pairs[(i + 1) \div 2][IF i % 2 = 1 THEN 1 ELSE 2]],
   edges |-> [k \in 1..Len(pairs) |-> <<2 * k - 1, 2 * k>>],
   faces |-> nfaces,
   scale |-> scale,
   selected |-> FALSE]

EmptyMesh == [co |-> <<>>, alive |-> {}, faces |-> <<>>]

NoBMesh == [verts |-> <<>>, faces |-> <<>>, live |-> FALSE]

\* the locals of drop_to_geometry_below when it is not running
NoCall ==
  [queue |-> <<>>, obj |-> "", selected_objects |-> {}, children_objects |-> {},
   lowest_z |-> 0, result |-> FALSE, location_z |-> 0, raised |-> FALSE, before |-> <<>>]

\* no object is being dropped
NoDrop ==
  /\ objs = <<>>
  /\ op = [fallback_to_floor |-> FALSE, custom_floor |-> 0, move_threshold |-> 0]
  /\ call = NoCall

(***************************************************************************)
(* The statements of extrude_profiles_along_edges, in the order of the     *)
(* source                                                                  *)
(***************************************************************************)
\* Phases with the weld moved in front of the corner pass
PhasesWeldEarly ==
  <<"scale", "delete", "create", "profile", "edges", "to_mesh", "weld", "corners">>

\* Phases with the scale applied after the faces are deleted and the object is made
PhasesScaleLate ==
  <<"delete", "create", "scale", "profile", "edges", "corners", "to_mesh", "weld">>

Phases == <<"scale", "delete", "create", "profile", "edges", "corners", "to_mesh", "weld">>

PhaseIndex(p) == CHOOSE i \in 1..Len(Phases) : Phases[i] = p

NextPhase(p) ==
  IF PhaseIndex(p) = Len(Phases) THEN "done" ELSE Phases[PhaseIndex(p) + 1]

Init ==
  /\ pc = Phases[1]
  /\ failed = ""
  /\ \E c \in Calls : impl = c[1] /\ profile_type = c[2] /\ segments = c[3]
  /\ \E st \in SizeThresholds : size = st[1] /\ merge_threshold = st[2]
  /\ delete_original_faces \in BOOLEAN
  /\ \E n \in 0..MaxEdges : \E pairs \in [1..n -> EdgeOptions] :
       \E nf \in InFaceCounts : \E sc \in Scales :
         mesh_obj = MeshOf(pairs, nf, sc)
  /\ mesh_obj0 = mesh_obj
  /\ mode = "OBJECT"
  /\ active = "mesh_obj"
  /\ scene = [meshes |-> {"mesh_obj.data"}, objects |-> {"mesh_obj"}, linked |-> {"mesh_obj"}]
  /\ new_mesh = EmptyMesh
  /\ new_bm = NoBMesh
  /\ profile_shape = <<>>
  /\ profiles_at_corners = <<>>
  /\ edge_i = 1
  /\ corner_i = 1
  /\ hull_calls = <<>>
  /\ phase_log = <<>>
  /\ weld_runs = 0
  /\ NoDrop

(***************************************************************************)
(* apply_object_scale, delete_faces, creation of the new object            *)
(***************************************************************************)
ScaleVec(sc, v) == <<sc[1] * v[1], sc[2] * v[2], sc[3] * v[3]>>

\* transform_apply(location=False, rotation=False, scale=True) on the selected,
\* active object
apply_object_scale(obj) ==
  [obj EXCEPT !.verts = [i \in 1..Len(obj.verts) |-> ScaleVec(obj.scale, obj.verts[i])],
              !.scale = <<1, 1, 1>>,
              !.selected = TRUE]

\* delete_faces with context='FACES', which takes the edges of the faces too
delete_faces_and_edges(obj) == [obj EXCEPT !.faces = 0, !.edges = <<>>]

\* bmesh.ops.delete(bm, geom=bm.faces[:], context='FACES_ONLY')
delete_faces(obj) == [obj EXCEPT !.faces = 0]

ApplyObjectScale ==
  /\ UNCHANGED drop
  /\ pc = "scale"
  /\ mesh_obj' = apply_object_scale(mesh_obj)
  /\ mode' = "OBJECT"
  /\ active' = "mesh_obj"
  /\ pc' = NextPhase("scale")
  /\ phase_log' = Append(phase_log, "scale")
  /\ UNCHANGED <<failed, params, mesh_obj0, scene, new_mesh, new_bm, profile_shape,
                 profiles_at_corners, loops, hull_calls, weld_runs>>

\* bpy.ops raises RuntimeError: from mode_set (nothing has changed yet) or from
\* transform_apply (the object is selected and active, the mode is OBJECT)
ApplyObjectScaleFails ==
  /\ UNCHANGED drop
  /\ pc = "scale"
  /\ \E at \in {"mode_set", "transform_apply"} :
       IF at = "mode_set"
       THEN UNCHANGED <<mesh_obj, mode, active>>
       ELSE /\ mesh_obj' = [mesh_obj EXCEPT !.selected = TRUE]
            /\ mode' = "OBJECT"
            /\ active' = "mesh_obj"
  /\ pc' = "failed"
  /\ failed' = "scale"
  /\ UNCHANGED <<params, mesh_obj0, scene, new_mesh, new_bm, profile_shape,
                 profiles_at_corners, loops, hull_calls, phase_log, weld_runs>>

DeleteFaces ==
  /\ UNCHANGED drop
  /\ pc = "delete"
  /\ delete_original_faces
  /\ mesh_obj' = delete_faces(mesh_obj)
  /\ active' = "mesh_obj"
  /\ mode' = "EDIT"
  /\ pc' = NextPhase("delete")
  /\ phase_log' = Append(phase_log, "delete")
  /\ UNCHANGED <<failed, params, mesh_obj0, scene, new_mesh, new_bm, profile_shape,
                 profiles_at_corners, loops, hull_calls, weld_runs>>

KeepFaces ==
  /\ UNCHANGED drop
  /\ pc = "delete"
  /\ ~delete_original_faces
  /\ pc' = NextPhase("delete")
  /\ UNCHANGED <<failed, params, mesh_obj, mesh_obj0, host, new_mesh, new_bm, profile_shape,
                 profiles_at_corners, loops, hull_calls, phase_log, weld_runs>>

\* mode_set(EDIT), from_edit_mesh, meshes.new, objects.new, collection.objects.link,
\* bmesh.new
CreateNewObject ==
  /\ UNCHANGED drop
  /\ pc = "create"
  /\ mode' = "EDIT"
  /\ scene' = [meshes |-> scene.meshes \cup {"ProfiledMesh"},
               objects |-> scene.objects \cup {"ProfiledObject"},
               linked |-> scene.linked \cup {"ProfiledObject"}]
  /\ new_bm' = [verts |-> <<>>, faces |-> <<>>, live |-> TRUE]
  /\ pc' = NextPhase("create")
  /\ phase_log' = Append(phase_log, "create")
  /\ UNCHANGED <<failed, params, mesh_obj, mesh_obj0, active, new_mesh, profile_shape,
                 profiles_at_corners, loops, hull_calls, weld_runs>>

CreateProfile ==
  /\ UNCHANGED drop
  /\ pc = "profile"
  /\ create_profile(impl, profile_type, size, segments).ok
  /\ profile_shape' = create_profile(impl, profile_type, size, segments).verts
  /\ profiles_at_corners' = <<>>
  /\ pc' = NextPhase("profile")
  /\ phase_log' = Append(phase_log, "profile")
  /\ UNCHANGED <<failed, params, mesh_obj, mesh_obj0, host, new_mesh, new_bm,
                 loops, hull_calls, weld_runs>>

CreateProfileRaises ==
  /\ UNCHANGED drop
  /\ pc = "profile"
  /\ ~create_profile(impl, profile_type, size, segments).ok
  /\ pc' = "failed"
  /\ failed' = "profile"
  /\ UNCHANGED <<params, mesh_obj, mesh_obj0, host, new_mesh, new_bm, profile_shape,
                 profiles_at_corners, loops, hull_calls, phase_log, weld_runs>>

(***************************************************************************)
(* The edge pass                                                           *)
(***************************************************************************)
\* [transformation_matrix @ p for p in profile_shape], with
\* transformation_matrix = Matrix.Translation(vert) @ rot_matrix
TransformProfile(vert, rot, shape) ==
  [i \in 1..Len(shape) |-> VAdd(vert, MatVec(rot, shape[i]))]

\* LateralFaces with the wrap-around index dropped from the fourth corner
LateralFacesNoWrap(start_verts, end_verts) ==
  LET n == Len(start_verts)
  IN [i \in 1..n |-> <<start_verts[i], end_verts[i],
                       end_verts[(i % n) + 1], start_verts[i]>>]

\* the lateral faces between the start and end profiles
LateralFaces(start_verts, end_verts) ==
  LET n == Len(start_verts)
  IN [i \in 1..n |-> <<start_verts[i], end_verts[i],
                       end_verts[(i % n) + 1], start_verts[(i % n) + 1]>>]

KeyIndex(dict, key) ==
  IF \E j \in 1..Len(dict) : dict[j].key = key
  THEN CHOOSE j \in 1..Len(dict) : dict[j].key = key
  ELSE 0

\* RecordProfile with the bucket of a key already there assigned instead of
\* appended to
RecordProfileAssigned(dict, key, verts) ==
  IF KeyIndex(dict, key) = 0
  THEN Append(dict, [key |-> key, profiles |-> <<verts>>])
  ELSE [dict EXCEPT ![KeyIndex(dict, key)].profiles = <<verts>>]

\* if key not in profiles_at_corners: profiles_at_corners[key] = []
\* profiles_at_corners[key].append(verts)
RecordProfile(dict, key, verts) ==
  IF KeyIndex(dict, key) = 0
  THEN Append(dict, [key |-> key, profiles |-> <<verts>>])
  ELSE [dict EXCEPT ![KeyIndex(dict, key)].profiles = Append(@, verts)]

\* whether the loop body runs for an edge: len(edge_verts) == 2, which holds of
\* every BMEdge
EdgeIsProcessed(edge) == Len(edge) = 2

EdgeStep ==
  /\ UNCHANGED drop
  /\ pc = "edges"
  /\ edge_i <= Len(mesh_obj.edges)
  /\ LET edge == mesh_obj.edges[edge_i]
         v1 == mesh_obj.verts[edge[1]]
         v2 == mesh_obj.verts[edge[2]]
         rot == RotationDifferenceToZ(Normalized(VSub(v2, v1)))
         n == Len(profile_shape)
         base == Len(new_bm.verts)
         start_verts == [i \in 1..n |-> base + i]
         end_verts == [i \in 1..n |-> base + n + i]
     IN IF EdgeIsProcessed(edge)
        THEN /\ new_bm' = [new_bm EXCEPT
                  !.verts = @ \o TransformProfile(v1, rot, profile_shape)
                              \o TransformProfile(v2, rot, profile_shape),
                  !.faces = @ \o LateralFaces(start_verts, end_verts)]
             /\ profiles_at_corners' =
                  RecordProfile(RecordProfile(profiles_at_corners, v1, start_verts),
                                v2, end_verts)
        ELSE UNCHANGED <<new_bm, profiles_at_corners>>
  /\ edge_i' = edge_i + 1
  /\ UNCHANGED <<pc, failed, params, mesh_obj, mesh_obj0, host, new_mesh, profile_shape,
                 corner_i, hull_calls, phase_log, weld_runs>>

EdgesDone ==
  /\ UNCHANGED drop
  /\ pc = "edges"
  /\ edge_i > Len(mesh_obj.edges)
  /\ pc' = NextPhase("edges")
  /\ phase_log' = Append(phase_log, "edges")
  /\ UNCHANGED <<failed, params, mesh_obj, mesh_obj0, host, new_mesh, new_bm, profile_shape,
                 profiles_at_corners, loops, hull_calls, weld_runs>>

(***************************************************************************)
(* The corner pass                                                         *)
(***************************************************************************)
\* CornerIsClosed with the comparison off by one: every corner is closed
CornerIsClosedAlways(corner_profiles) == Len(corner_profiles) > 0

\* if len(corner_profiles) > 1
CornerIsClosed(corner_profiles) == Len(corner_profiles) > CornerMinExclusive

\* corner_verts of close_corner_with_convex_hull
CornerVerts(corner_profiles) == Flatten(corner_profiles)

\* if len(corner_verts) > 3
HullIsRun(corner_verts) == Len(corner_verts) > HullMinExclusive

CloseCorner ==
  /\ UNCHANGED drop
  /\ pc = "corners"
  /\ corner_i <= Len(profiles_at_corners)
  /\ LET corner == profiles_at_corners[corner_i]
         corner_verts == CornerVerts(corner.profiles)
         cap == convex_hull(new_bm.verts, corner_verts)
     IN /\ CornerIsClosed(corner.profiles)
        /\ IF HullIsRun(corner_verts)
           THEN /\ new_bm' = [new_bm EXCEPT !.faces = @ \o cap]
                /\ hull_calls' = Append(hull_calls,
                     [corner |-> corner.key, input |-> corner_verts, faces |-> cap])
           ELSE UNCHANGED <<new_bm, hull_calls>>
  /\ corner_i' = corner_i + 1
  /\ UNCHANGED <<pc, failed, params, mesh_obj, mesh_obj0, host, new_mesh, profile_shape,
                 profiles_at_corners, edge_i, phase_log, weld_runs>>

LeaveCornerOpen ==
  /\ UNCHANGED drop
  /\ pc = "corners"
  /\ corner_i <= Len(profiles_at_corners)
  /\ ~CornerIsClosed(profiles_at_corners[corner_i].profiles)
  /\ corner_i' = corner_i + 1
  /\ UNCHANGED <<pc, failed, params, mesh_obj, mesh_obj0, host, new_mesh, new_bm,
                 profile_shape, profiles_at_corners, edge_i, hull_calls, phase_log,
                 weld_runs>>

CornersDone ==
  /\ UNCHANGED drop
  /\ pc = "corners"
  /\ corner_i > Len(profiles_at_corners)
  /\ pc' = NextPhase("corners")
  /\ phase_log' = Append(phase_log, "corners")
  /\ UNCHANGED <<failed, params, mesh_obj, mesh_obj0, host, new_mesh, new_bm, profile_shape,
                 profiles_at_corners, loops, hull_calls, weld_runs>>

(***************************************************************************)
(* to_mesh, free, weld                                                     *)
(***************************************************************************)
ToMesh ==
  /\ UNCHANGED drop
  /\ pc = "to_mesh"
  /\ new_mesh' = [co |-> new_bm.verts, alive |-> 1..Len(new_bm.verts),
                  faces |-> new_bm.faces]
  /\ new_bm' = [new_bm EXCEPT !.live = FALSE]
  /\ pc' = NextPhase("to_mesh")
  /\ phase_log' = Append(phase_log, "to_mesh")
  /\ UNCHANGED <<failed, params, mesh_obj, mesh_obj0, host, profile_shape,
                 profiles_at_corners, loops, hull_calls, weld_runs>>

MergePrismVertices ==
  /\ UNCHANGED drop
  /\ pc = "weld"
  /\ active' = "ProfiledObject"
  /\ mode' = "OBJECT"
  /\ new_mesh' = merge_prism_vertices(new_mesh, merge_threshold)
  /\ weld_runs' = weld_runs + 1
  /\ pc' = NextPhase("weld")
  /\ phase_log' = Append(phase_log, "weld")
  /\ UNCHANGED <<failed, params, mesh_obj, mesh_obj0, scene, new_bm, profile_shape,
                 profiles_at_corners, loops, hull_calls>>

Next ==
  \/ ApplyObjectScale
  \/ ApplyObjectScaleFails
  \/ DeleteFaces
  \/ KeepFaces
  \/ CreateNewObject
  \/ CreateProfile
  \/ CreateProfileRaises
  \/ EdgeStep
  \/ EdgesDone
  \/ CloseCorner
  \/ LeaveCornerOpen
  \/ CornersDone
  \/ ToMesh
  \/ MergePrismVertices

Spec == Init /\ [][Next]_vars

(***************************************************************************)
(* Properties of the build                                                 *)
(***************************************************************************)
\* the vertices mesh edge k joins, after the scale has been applied
EdgeV1(k) == mesh_obj.verts[mesh_obj.edges[k][1]]

EdgeV2(k) == mesh_obj.verts[mesh_obj.edges[k][2]]

\* the ids of the vertices the edge pass created for its e-th edge
StartVert(e, i) == 2 * Len(profile_shape) * (e - 1) + i

EndVert(e, i) == 2 * Len(profile_shape) * (e - 1) + Len(profile_shape) + i

EdgeVertIds(e) ==
  (2 * Len(profile_shape) * (e - 1) + 1)..(2 * Len(profile_shape) * e)

\* C1: during the edge pass, with k edges processed and a profile of N points, the
\* new BMesh holds exactly 2N vertices and N faces per edge; the i-th face of the
\* e-th edge is [start[i], end[i], end[(i+1) mod N], start[(i+1) mod N]] over that
\* edge's own N start and N end vertices, and refers to no vertex of another edge.
C1_EdgePassGeometry ==
  pc = "edges" =>
    LET n == Len(profile_shape)
        k == edge_i - 1
    IN /\ Len(new_bm.verts) = 2 * n * k
       /\ Len(new_bm.faces) = n * k
       /\ \A e \in 1..k : \A i \in 1..n :
            LET f == new_bm.faces[n * (e - 1) + i]
                j == (i % n) + 1
            IN /\ f = <<StartVert(e, i), EndVert(e, i), EndVert(e, j), StartVert(e, j)>>
               /\ SeqToSet(f) \subseteq EdgeVertIds(e)
               /\ \A e2 \in (1..k) \ {e} : SeqToSet(f) \cap EdgeVertIds(e2) = {}

C1_Witness ==
  /\ pc = "edges"
  /\ edge_i = 3
  /\ Len(profile_shape) = 4
  /\ Len(new_bm.faces) = 8
  /\ Len(new_bm.verts) = 16

\* the input edges with a vertex at coordinate c
EdgesAt(c) == {k \in 1..Len(mesh_obj.edges) : EdgeV1(k) = c \/ EdgeV2(k) = c}

\* C2: the convex hull is never run for a corner position at which only one input
\* edge has an endpoint (an edge with both vertices at that position included).
C2_SingleEdgeCornerNotHulled ==
  \A h \in 1..Len(hull_calls) : Cardinality(EdgesAt(hull_calls[h].corner)) # 1

\* the hull calls made for the corner with key c
CallsFor(c) == {h \in 1..Len(hull_calls) : hull_calls[h].corner = c}

\* the number of vertices over the profile instances of a bucket
AggregateCount(profiles) == Len(Flatten(profiles))

\* C3: a corner the corner pass has visited has exactly one hull call if its bucket
\* holds more than one profile instance and at least 4 vertices in all, and none
\* otherwise; a corner not yet visited has none; the input of the call is exactly
\* the vertices of the bucket's profile instances, shares no vertex with another
\* corner's bucket, and every vertex of a cap face is one of them.
C3_HullPerCorner ==
  /\ \A c \in 1..Len(profiles_at_corners) :
       LET bucket == profiles_at_corners[c]
           visited == pc # "edges" /\ c < corner_i
           capped == Len(bucket.profiles) > 1 /\ AggregateCount(bucket.profiles) >= 4
       IN /\ Cardinality(CallsFor(bucket.key)) = IF visited /\ capped THEN 1 ELSE 0
          /\ \A h \in CallsFor(bucket.key) :
               /\ hull_calls[h].input = Flatten(bucket.profiles)
               /\ \A f \in 1..Len(hull_calls[h].faces) :
                    SeqToSet(hull_calls[h].faces[f]) \subseteq SeqToSet(hull_calls[h].input)
               /\ \A d \in (1..Len(profiles_at_corners)) \ {c} :
                    SeqToSet(hull_calls[h].input)
                      \cap SeqToSet(Flatten(profiles_at_corners[d].profiles)) = {}
  /\ \A h \in 1..Len(hull_calls) :
       \E c \in 1..Len(profiles_at_corners) : profiles_at_corners[c].key = hull_calls[h].corner

C3_Witness ==
  /\ pc = "to_mesh"
  /\ \E h \in 1..Len(hull_calls) : Len(hull_calls[h].faces) > 0
  /\ \E c \in 1..Len(profiles_at_corners) : Len(profiles_at_corners[c].profiles) = 1
  /\ Len(hull_calls) < Len(profiles_at_corners)

\* the order the specification gives the phases
StatedOrder == <<"scale", "delete", "profile", "edges", "corners", "weld">>

Rank(p) ==
  IF \E i \in 1..Len(StatedOrder) : StatedOrder[i] = p
  THEN CHOOSE i \in 1..Len(StatedOrder) : StatedOrder[i] = p
  ELSE 0

Logged(p) == \E i \in 1..Len(phase_log) : phase_log[i] = p

\* C4: the phases complete in the order scale, (delete), profile, edge pass, corner
\* pass, weld, each at most once and none before the one it follows has completed;
\* no corner is visited or closed before the last edge has been recorded; the weld
\* runs at most once, only after the corner pass has visited every corner, and a
\* build that ends normally has run it exactly once.
C4_PhaseOrder ==
  /\ \A i, j \in 1..Len(phase_log) :
       (i < j /\ Rank(phase_log[i]) > 0 /\ Rank(phase_log[j]) > 0)
         => Rank(phase_log[i]) < Rank(phase_log[j])
  /\ Logged("delete") => Logged("scale")
  /\ Logged("profile") => Logged("scale") /\ (delete_original_faces => Logged("delete"))
  /\ Logged("edges") => Logged("profile")
  /\ Logged("corners") => Logged("edges")
  /\ Logged("weld") => Logged("corners")
  /\ (corner_i > 1 \/ hull_calls # <<>>) =>
       /\ Logged("edges")
       /\ edge_i = Len(mesh_obj.edges) + 1
  /\ weld_runs <= 1
  /\ weld_runs = 1 =>
       /\ Logged("corners")
       /\ corner_i = Len(profiles_at_corners) + 1
       /\ \A h \in 1..Len(hull_calls) : \A f \in 1..Len(hull_calls[h].faces) :
            \E g \in 1..Len(new_bm.faces) : new_bm.faces[g] = hull_calls[h].faces[f]
  /\ pc = "done" => weld_runs = 1

C4_Witness ==
  /\ pc = "done"
  /\ Logged("delete")
  /\ Len(hull_calls) = 2
  /\ Len(mesh_obj.edges) = 2

\* the scene before the call
SceneBefore ==
  [meshes |-> {"mesh_obj.data"}, objects |-> {"mesh_obj"}, linked |-> {"mesh_obj"}]

\* C5: a build that fails at the profile leaves no new object linked into the scene,
\* no new mesh or object behind, and the input mesh as it was before the call.
C5_FailedBuildLeavesNothing ==
  failed = "profile" =>
    /\ "ProfiledObject" \notin scene.linked
    /\ scene = SceneBefore
    /\ mesh_obj.verts = mesh_obj0.verts
    /\ mesh_obj.edges = mesh_obj0.edges
    /\ mesh_obj.faces = mesh_obj0.faces

\* C6: when applying the object scale fails the build stops there: the faces of the
\* input are not deleted, its vertices and scale are as before, no mesh or object is
\* created or linked, and neither the new BMesh, the profile nor the corner map has
\* been touched.
C6_ScaleFailureAbortsFirst ==
  failed = "scale" =>
    /\ pc = "failed"
    /\ mesh_obj.faces = mesh_obj0.faces
    /\ mesh_obj.verts = mesh_obj0.verts
    /\ mesh_obj.edges = mesh_obj0.edges
    /\ mesh_obj.scale = mesh_obj0.scale
    /\ scene = SceneBefore
    /\ new_bm = NoBMesh
    /\ new_mesh = EmptyMesh
    /\ profile_shape = <<>>
    /\ profiles_at_corners = <<>>
    /\ hull_calls = <<>>
    /\ phase_log = <<>>
    /\ weld_runs = 0

C6_Witness ==
  /\ failed = "scale"
  /\ delete_original_faces
  /\ mesh_obj.selected
  /\ mesh_obj0.faces > 0
  /\ Len(mesh_obj0.edges) = 2

\* the edges the edge pass has gone through whose two vertices differ
ProperEdgesDone == {k \in 1..(edge_i - 1) : EdgeV1(k) # EdgeV2(k)}

\* the profile instances recorded in the corner map
InstancesRecorded ==
  Len(Flatten([c \in 1..Len(profiles_at_corners) |-> profiles_at_corners[c].profiles]))

\* C7: an edge whose two vertices coincide is skipped: only the other edges add
\* vertices, faces and corner-map entries to the build.
C7_DegenerateEdgeSkipped ==
  pc = "edges" =>
    /\ Len(new_bm.verts) = 2 * Len(profile_shape) * Cardinality(ProperEdgesDone)
    /\ Len(new_bm.faces) = Len(profile_shape) * Cardinality(ProperEdgesDone)
    /\ InstancesRecorded = 2 * Cardinality(ProperEdgesDone)

\* C8: after the weld no two vertices of the output are within the merge threshold
\* of each other, every face refers only to vertices that exist, and every face has
\* at least 3 distinct vertices.
C8_WeldedOutput ==
  pc = "done" =>
    /\ \A u, v \in new_mesh.alive :
         u # v => DistSq(new_mesh.co[u], new_mesh.co[v]) > merge_threshold * merge_threshold
    /\ \A f \in 1..Len(new_mesh.faces) :
         /\ SeqToSet(new_mesh.faces[f]) \subseteq new_mesh.alive
         /\ Cardinality(SeqToSet(new_mesh.faces[f])) >= 3

C8_Witness ==
  /\ pc = "done"
  /\ merge_threshold = 2
  /\ Cardinality(new_mesh.alive) < Len(new_mesh.co)
  /\ Len(new_mesh.faces) < Len(new_bm.faces)
  /\ Len(new_mesh.faces) > 0
  /\ \E u, v \in 1..Len(new_bm.verts) :
       /\ new_bm.verts[u] # new_bm.verts[v]
       /\ DistSq(new_bm.verts[u], new_bm.verts[v]) <= merge_threshold * merge_threshold

(***************************************************************************)
(* The weld on its own: merge_prism_vertices applied to a mesh, and again  *)
(* to its result                                                           *)
(***************************************************************************)
MaxWeldVerts == 4

MaxWeldFaces == 2

MaxWelds == 2

WeldCoords == {<<0, 0, 0>>, <<1, 0, 0>>, <<2, 0, 0>>, <<0, 1, 0>>}

WeldThresholds == {0, 1}

\* faces over n vertices: the triangles and quads of consecutive vertices
WeldFaces(n) ==
  {<<a, a + 1, a + 2>> : a \in 1..(n - 2)} \cup {<<a, a + 1, a + 2, a + 3>> : a \in 1..(n - 3)}

\* a mesh of n vertices at co with the faces fs
WeldMesh(co, fs) == [co |-> co, alive |-> 1..Len(co), faces |-> fs]

\* the state of the build that a call of create_profile or of merge_prism_vertices
\* on its own does not depend on
OutsideBuild ==
  /\ failed = ""
  /\ delete_original_faces = FALSE
  /\ mesh_obj = MeshOf(<<>>, 0, <<1, 1, 1>>)
  /\ mesh_obj0 = mesh_obj
  /\ mode = "EDIT"
  /\ active = "mesh_obj"
  /\ scene = [meshes |-> {"mesh_obj.data", "ProfiledMesh"},
              objects |-> {"mesh_obj", "ProfiledObject"},
              linked |-> {"mesh_obj", "ProfiledObject"}]
  /\ new_bm = NoBMesh
  /\ profiles_at_corners = <<>>
  /\ edge_i = 1
  /\ corner_i = 1
  /\ hull_calls = <<>>
  /\ phase_log = <<>>
  /\ weld_runs = 0

InitWeld ==
  /\ OutsideBuild
  /\ NoDrop
  /\ pc = "weld"
  /\ impl = "profiled_wireframe"
  /\ profile_type = "SQUARE"
  /\ size = 1
  /\ segments = DefaultSegments
  /\ profile_shape = <<>>
  /\ merge_threshold \in WeldThresholds
  /\ \E n \in 0..MaxWeldVerts : \E co \in [1..n -> WeldCoords] :
       \E k \in 0..MaxWeldFaces : \E fs \in [1..k -> WeldFaces(n)] :
         new_mesh = WeldMesh(co, fs)

\* merge_prism_vertices called on the object it has already welded
MergeAgain ==
  /\ UNCHANGED drop
  /\ pc = "done"
  /\ weld_runs \in 1..(MaxWelds - 1)
  /\ active' = "ProfiledObject"
  /\ mode' = "OBJECT"
  /\ new_mesh' = merge_prism_vertices(new_mesh, merge_threshold)
  /\ weld_runs' = weld_runs + 1
  /\ UNCHANGED <<pc, failed, params, mesh_obj, mesh_obj0, scene, new_bm, profile_shape,
                 profiles_at_corners, loops, hull_calls, phase_log>>

NextWeld ==
  \/ MergePrismVertices
  \/ MergeAgain

SpecWeld == InitWeld /\ [][NextWeld]_vars

\* C9: welding a welded mesh again with the same threshold changes neither its
\* vertices (which exist, and where they are) nor its faces.
C9_WeldIdempotent ==
  [][(pc = "done" /\ weld_runs >= 1) =>
       /\ new_mesh'.alive = new_mesh.alive
       /\ new_mesh'.co = new_mesh.co
       /\ new_mesh'.faces = new_mesh.faces]_vars

C9_Witness ==
  /\ pc = "done"
  /\ weld_runs = 2
  /\ merge_threshold = 1
  /\ Cardinality(new_mesh.alive) = 2
  /\ Len(new_mesh.co) = 4
  /\ Len(new_mesh.faces) = 0

(***************************************************************************)
(* create_profile on its own, in either file                               *)
(***************************************************************************)
MaxProfileSize == 3

MaxProfileSegments == 7

InitProfile ==
  /\ OutsideBuild
  /\ NoDrop
  /\ pc = "profile"
  /\ impl \in Impls
  /\ profile_type \in Tags
  /\ size \in 1..MaxProfileSize
  /\ segments \in MinSegments..MaxProfileSegments
  /\ profile_shape = <<>>
  /\ merge_threshold = 1
  /\ new_mesh = EmptyMesh

NextProfile ==
  \/ CreateProfile
  \/ CreateProfileRaises

SpecProfile == InitProfile /\ [][NextProfile]_vars

\* the number of points the contract gives a profile
DocumentedCount(tag, n) ==
  CASE tag = "SQUARE" -> 4
    [] tag = "ROUND" -> n
    [] tag = "TRIANGLE" -> 3

\* create_profile has returned profile_shape, for a tag among supported, with the
\* documented number of points, all in the plane z = 0; or it has raised, for a tag
\* not among supported
ProfileContract(supported) ==
  /\ pc = "edges" =>
       /\ profile_type \in supported
       /\ Len(profile_shape) = DocumentedCount(profile_type, segments)
       /\ \A i \in 1..Len(profile_shape) : profile_shape[i][3] = 0
  /\ failed = "profile" => profile_type \notin supported

\* C10 as stated: in every file that defines it, create_profile returns 4, segments
\* and 3 points for SQUARE, ROUND and TRIANGLE, all with z = 0, and raises exactly
\* for a tag outside these three.
C10_EveryFileThreeShapes ==
  ProfileContract({"SQUARE", "ROUND", "TRIANGLE"})

\* C10, amended: create_profile of profiled_wireframe.py returns 4, segments and 3
\* points for SQUARE, ROUND and TRIANGLE, all with z = 0, and raises exactly for a
\* tag outside these three; create_profile of custom_wireframe_with_profiles.py
\* returns 4 and segments points for SQUARE and ROUND, all with z = 0, and raises
\* for every other tag, TRIANGLE included.
C10_ProfilePerFile ==
  ProfileContract(IF impl = "profiled_wireframe"
                  THEN {"SQUARE", "ROUND", "TRIANGLE"}
                  ELSE {"SQUARE", "ROUND"})

C10_Witness ==
  /\ failed = "profile"
  /\ impl = "custom_wireframe_with_profiles"
  /\ profile_type = "TRIANGLE"

(***************************************************************************)
(* Frame of the build and the corner map                                   *)
(***************************************************************************)
\* the delete step is behind the build
PastDelete == pc \notin {"scale", "delete", "failed"} \/ failed = "profile"

\* C11: a build leaves the topology of the input as it was, faces apart: at every
\* point of the call the input has the same vertices, at the same places in world
\* space, and the same edges as before; once the delete step is behind, its faces
\* are gone if delete_original_faces is true and untouched if it is false, and
\* before that step they are untouched; the generated vertices and faces are in the
\* new BMesh and the new object's mesh, which is a datablock of its own.
C11_InputTopologyKept ==
  /\ Len(mesh_obj.verts) = Len(mesh_obj0.verts)
  /\ \A i \in 1..Len(mesh_obj.verts) :
       ScaleVec(mesh_obj.scale, mesh_obj.verts[i])
         = ScaleVec(mesh_obj0.scale, mesh_obj0.verts[i])
  /\ mesh_obj.edges = mesh_obj0.edges
  /\ PastDelete =>
       mesh_obj.faces = IF delete_original_faces THEN 0 ELSE mesh_obj0.faces
  /\ ~PastDelete => mesh_obj.faces = mesh_obj0.faces
  /\ pc = "done" =>
       /\ "mesh_obj.data" \in scene.meshes
       /\ "ProfiledMesh" \in scene.meshes
       /\ Len(new_mesh.co) = 2 * Len(profile_shape) * Len(mesh_obj0.edges)

C11_Witness ==
  /\ pc = "done"
  /\ delete_original_faces
  /\ mesh_obj0.faces > 0
  /\ mesh_obj.faces = 0
  /\ mesh_obj0.scale # <<1, 1, 1>>
  /\ Len(mesh_obj.edges) = 2
  /\ Len(new_mesh.faces) > 0

\* the profile instances of the e-th edge: the ids of its start and of its end
\* vertices, in the order they were created
StartInstance(e) == [i \in 1..Len(profile_shape) |-> StartVert(e, i)]

EndInstance(e) == [i \in 1..Len(profile_shape) |-> EndVert(e, i)]

\* what the first k edges bring to the bucket of a key, in edge order
InstancesAt(key, k) ==
  Flatten([e \in 1..k |->
             (IF EdgeV1(e) = key THEN <<StartInstance(e)>> ELSE <<>>)
               \o (IF EdgeV2(e) = key THEN <<EndInstance(e)>> ELSE <<>>)])

\* C15: with k edges processed, the corner map has one bucket per coordinate that is
\* an endpoint of one of them and no other; the bucket of a key holds, in edge order,
\* one profile instance per (edge, endpoint) whose coordinate equals the key, and
\* nothing else, so that a bucket only ever grows and none disappears; the instances
\* recorded number 2k.  After the edge pass the map stays as the pass left it.
C15_CornerMapBuckets ==
  LET k == edge_i - 1
      dict == profiles_at_corners
  IN /\ \A c, d \in 1..Len(dict) : dict[c].key = dict[d].key => c = d
     /\ {dict[c].key : c \in 1..Len(dict)}
          = {EdgeV1(e) : e \in 1..k} \cup {EdgeV2(e) : e \in 1..k}
     /\ \A c \in 1..Len(dict) : dict[c].profiles = InstancesAt(dict[c].key, k)
     /\ InstancesRecorded = 2 * k

C15_Witness ==
  /\ pc = "edges"
  /\ edge_i = 3
  /\ Len(profile_shape) = 3
  /\ Len(profiles_at_corners) = 3
  /\ \E c \in 1..Len(profiles_at_corners) : Len(profiles_at_corners[c].profiles) = 2

(***************************************************************************)
(* drop_to_floor.py.  Lengths are in units of 0.01; an object is           *)
(* [type, parent, x, y, z: its location, relative to its parent,           *)
(* lo, hi: the z extent of its bound_box, hide_viewport, selected].        *)
(* Parents neither rotate nor scale, so matrix_world is the translation by *)
(* the locations along the chain of parents.                               *)
(***************************************************************************)
\* ray_origin is lowest_z + 0.01
RayLift == 1

MaxMoveThreshold == 2

\* obj.type in {'MESH', 'EMPTY', 'CAMERA', 'LIGHT', 'CURVE', 'SURFACE', 'FONT', 'META'}
DropTypes == {"MESH", "EMPTY", "CAMERA", "LIGHT", "CURVE", "SURFACE", "FONT", "META"}

\* the types whose objects have faces a ray can hit
HitTypes == {"MESH"}

Abs(n) == IF n < 0 THEN -n ELSE n

SetMin(S) == CHOOSE m \in S : \A n \in S : m <= n

SetMax(S) == CHOOSE m \in S : \A n \in S : n <= m

RECURSIVE WorldOf(_, _, _)
\* the translation of matrix_world along axis "x", "y" or "z"
WorldOf(os, o, axis) ==
  os[o][axis] + (IF os[o].parent = "" THEN 0 ELSE WorldOf(os, os[o].parent, axis))

RECURSIVE IsUnder(_, _, _)
IsUnder(os, c, o) ==
  /\ os[c].parent # ""
  /\ (os[c].parent = o \/ IsUnder(os, os[c].parent, o))

\* obj.children_recursive
children_recursive(os, o) == {c \in DOMAIN os : IsUnder(os, c, o)}

\* obj.children
children(os, o) == {c \in DOMAIN os : os[c].parent = o}

\* bpy.context.selected_objects: the selected objects that are visible
selected_objects(os) == {o \in DOMAIN os : os[o].selected /\ ~os[o].hide_viewport}

\* the z of [matrix_world @ Vector(corner) for corner in o.bound_box]
BoundBoxZ(os, o) == {WorldOf(os, o, "z") + os[o].lo, WorldOf(os, o, "z") + os[o].hi}

\* the z of the corners get_hierarchy_bounding_box returns
get_hierarchy_bounding_box(os, o) ==
  IF children(os, o) = {}
  THEN BoundBoxZ(os, o)
  ELSE UNION {BoundBoxZ(os, c) : c \in children_recursive(os, o)}

\* scene.ray_cast straight down from (x, y, origin_z): the z of the faces of visible
\* objects in that column at or below the origin
FacesBelow(os, x, y, origin_z) ==
  UNION {{z \in BoundBoxZ(os, o) : z <= origin_z} :
           o \in {o \in DOMAIN os : /\ ~os[o].hide_viewport
                                    /\ os[o].type \in HitTypes
                                    /\ WorldOf(os, o, "x") = x
                                    /\ WorldOf(os, o, "y") = y}}

ray_cast(os, x, y, origin_z) ==
  IF FacesBelow(os, x, y, origin_z) = {}
  THEN [result |-> FALSE, location_z |-> 0]
  ELSE [result |-> TRUE, location_z |-> SetMax(FacesBelow(os, x, y, origin_z))]

\* the objects with hide_viewport set to value for those in S
WithHide(os, S, value) ==
  [o \in DOMAIN os |-> IF o \in S THEN [os[o] EXCEPT !.hide_viewport = value] ELSE os[o]]

\* the orders a set of at most two objects can be gone through in
Orders(S) ==
  {q \in UNION {[1..n -> S] : n \in 0..2} :
     /\ Len(q) = Cardinality(S)
     /\ \A i, j \in 1..Len(q) : q[i] = q[j] => i = j}

(***************************************************************************)
(* A scene: A is selected; B is a mesh that may be A's child, selected or  *)
(* hidden, in A's column or beside it; G is a ground plane below both.     *)
(***************************************************************************)
ObjectA(type, z) ==
  [type |-> type, parent |-> "", x |-> 0, y |-> 0, z |-> z, lo |-> 0, hi |-> 1,
   hide_viewport |-> FALSE, selected |-> TRUE]

ObjectB(parent, x, z, hide, sel) ==
  [type |-> "MESH", parent |-> parent, x |-> x, y |-> 0, z |-> z, lo |-> 0, hi |-> 1,
   hide_viewport |-> hide, selected |-> sel]

ObjectG(hide) ==
  [type |-> "MESH", parent |-> "", x |-> 0, y |-> 0, z |-> -3, lo |-> 0, hi |-> 0,
   hide_viewport |-> hide, selected |-> FALSE]

TypesOfA == {"MESH", "EMPTY", "ARMATURE"}

HeightsOfA == {1, 4}

HeightsOfB == {0, 2}

ColumnsOfB == {0, 1}

Floors == {0, 1}

InitDrop ==
  /\ OutsideBuild
  /\ pc = "execute"
  /\ impl = "drop_to_floor"
  /\ profile_type = "SQUARE"
  /\ size = 1
  /\ segments = DefaultSegments
  /\ profile_shape = <<>>
  /\ merge_threshold = 1
  /\ new_mesh = EmptyMesh
  /\ \E ta \in TypesOfA : \E za \in HeightsOfA :
       \E pb \in {"", "A"} : \E xb \in ColumnsOfB : \E zb \in HeightsOfB :
         \E hb \in BOOLEAN : \E sb \in BOOLEAN : \E hg \in BOOLEAN :
           objs = [n \in {"A", "B", "G"} |->
                     CASE n = "A" -> ObjectA(ta, za)
                       [] n = "B" -> ObjectB(pb, xb, zb, hb, sb)
                       [] n = "G" -> ObjectG(hg)]
  /\ op \in [fallback_to_floor : BOOLEAN, custom_floor : Floors,
             move_threshold : 0..MaxMoveThreshold]
  /\ \E q \in Orders(selected_objects(objs)) : call = [NoCall EXCEPT !.queue = q]

\* everything but the state of the drop
build == <<pc, failed, params, mesh_obj, mesh_obj0, host, new_mesh, new_bm,
           profile_shape, profiles_at_corners, loops, hull_calls, phase_log, weld_runs>>

notpc == <<failed, params, mesh_obj, mesh_obj0, host, new_mesh, new_bm,
           profile_shape, profiles_at_corners, loops, hull_calls, phase_log, weld_runs>>

\* execute: the next selected object is of a type the operator drops
ExecuteCall ==
  /\ pc = "execute"
  /\ call.queue # <<>>
  /\ objs[Head(call.queue)].type \in DropTypes
  /\ call' = [NoCall EXCEPT !.queue = Tail(call.queue), !.obj = Head(call.queue)]
  /\ pc' = "drop_hide"
  /\ UNCHANGED <<notpc, objs, op>>

\* execute: the next selected object is of another type
ExecuteSkip ==
  /\ pc = "execute"
  /\ call.queue # <<>>
  /\ objs[Head(call.queue)].type \notin DropTypes
  /\ call' = [call EXCEPT !.queue = Tail(call.queue)]
  /\ UNCHANGED <<build, objs, op>>

\* execute: return {'FINISHED'}
ExecuteReturn ==
  /\ pc = "execute"
  /\ call.queue = <<>>
  /\ pc' = "finished"
  /\ UNCHANGED <<notpc, drop>>

\* drop_to_geometry_below, up to the try: the two lists, and the object and its
\* children hidden
DropHide ==
  /\ pc = "drop_hide"
  /\ call' = [call EXCEPT
       !.selected_objects = selected_objects(objs) \ {call.obj},
       !.children_objects = children_recursive(objs, call.obj),
       !.before = objs]
  /\ objs' = WithHide(objs, children_recursive(objs, call.obj) \cup {call.obj}, TRUE)
  /\ pc' = "drop_bbox"
  /\ UNCHANGED <<notpc, op>>

\* bbox = get_hierarchy_bounding_box(obj); lowest_z = min(...)
BoundingBox ==
  /\ pc = "drop_bbox"
  /\ call' = [call EXCEPT !.lowest_z = SetMin(get_hierarchy_bounding_box(objs, call.obj))]
  /\ pc' = "drop_raycast"
  /\ UNCHANGED <<notpc, objs, op>>

\* scene.ray_cast(depsgraph, ray_origin, ray_direction)
RayCast ==
  /\ pc = "drop_raycast"
  /\ LET hit == ray_cast(objs, objs[call.obj].x, objs[call.obj].y, call.lowest_z + RayLift)
     IN call' = [call EXCEPT !.result = hit.result, !.location_z = hit.location_z]
  /\ pc' = "drop_move"
  /\ UNCHANGED <<notpc, objs, op>>

\* an exception inside the try: from the bounding box or from the ray cast
TryRaises ==
  /\ pc \in {"drop_bbox", "drop_raycast"}
  /\ call' = [call EXCEPT !.raised = TRUE]
  /\ pc' = "drop_finally"
  /\ UNCHANGED <<notpc, objs, op>>

\* location.z - lowest_z
distance_to_move == call.location_z - call.lowest_z

\* if result: if abs(distance_to_move) > move_threshold: obj.location.z += ...
MoveToHit ==
  /\ pc = "drop_move"
  /\ call.result
  /\ Abs(distance_to_move) > op.move_threshold
  /\ objs' = [objs EXCEPT ![call.obj].z = @ + distance_to_move]
  /\ pc' = "drop_finally"
  /\ UNCHANGED <<notpc, op, call>>

\* if result: else: no movement applied
BelowThreshold ==
  /\ pc = "drop_move"
  /\ call.result
  /\ ~(Abs(distance_to_move) > op.move_threshold)
  /\ pc' = "drop_finally"
  /\ UNCHANGED <<notpc, drop>>

\* else: if fallback_to_floor: obj.location.z = custom_floor - (lowest_z - obj.location.z)
MoveToFloor ==
  /\ pc = "drop_move"
  /\ ~call.result
  /\ op.fallback_to_floor
  /\ objs' = [objs EXCEPT
       ![call.obj].z = op.custom_floor - (call.lowest_z - objs[call.obj].z)]
  /\ pc' = "drop_finally"
  /\ UNCHANGED <<notpc, op, call>>

\* else: else: no action taken
NoFloor ==
  /\ pc = "drop_move"
  /\ ~call.result
  /\ ~op.fallback_to_floor
  /\ pc' = "drop_finally"
  /\ UNCHANGED <<notpc, drop>>

\* finally: hide_viewport = False for obj, its children and the other selected
\* objects; an exception then leaves execute
Finally ==
  /\ pc = "drop_finally"
  /\ objs' = WithHide(objs, {call.obj} \cup call.children_objects
                              \cup call.selected_objects, FALSE)
  /\ pc' = IF call.raised THEN "raised" ELSE "execute"
  /\ UNCHANGED <<notpc, op, call>>

NextDrop ==
  \/ ExecuteCall
  \/ ExecuteSkip
  \/ ExecuteReturn
  \/ DropHide
  \/ BoundingBox
  \/ RayCast
  \/ TryRaises
  \/ MoveToHit
  \/ BelowThreshold
  \/ MoveToFloor
  \/ NoFloor
  \/ Finally

SpecDrop == InitDrop /\ [][NextDrop]_vars

(***************************************************************************)
(* Properties of the drop                                                  *)
(***************************************************************************)
\* the objects a call of drop_to_geometry_below hides or shows
Concerned == {call.obj} \cup call.children_objects \cup call.selected_objects

\* a call of drop_to_geometry_below has ended, by return or by exception
CallEnded == pc \in {"execute", "finished", "raised"} /\ call.obj # ""

\* C12: when drop_to_geometry_below has ended, by return or by an exception from
\* the bounding box or the ray cast, hide_viewport of the dropped object, of each of
\* its recursive children and of every other selected object is what it was before
\* the call.
C12_VisibilityRestored ==
  CallEnded =>
    \A o \in Concerned : objs[o].hide_viewport = call.before[o].hide_viewport

\* C13: when the ray has been cast for an object, that object, all its recursive
\* children and every other selected object are hidden.
C13_SelectionHiddenAtCast ==
  pc = "drop_move" => \A o \in Concerned : objs[o].hide_viewport

\* the height the lowest point is to end on, and how far that is
TargetZ == IF call.result THEN call.location_z ELSE op.custom_floor

RequiredMove == TargetZ - call.lowest_z

\* C14: after the move step of drop_to_geometry_below, the object's z has changed
\* only if something was hit, or nothing was hit and fallback_to_floor is true, and
\* the required displacement of the lowest point is greater in magnitude than
\* move_threshold, and then the lowest point is on the target height; otherwise z
\* is as before; x and y are as before.
C14_ThresholdGatesMove ==
  (pc = "drop_finally" /\ ~call.raised) =>
    LET o == call.obj
        moves == /\ call.result \/ op.fallback_to_floor
                 /\ Abs(RequiredMove) > op.move_threshold
    IN /\ moves => /\ objs[o].z = call.before[o].z + RequiredMove
                   /\ SetMin(get_hierarchy_bounding_box(objs, o)) = TargetZ
       /\ ~moves => objs[o].z = call.before[o].z
       /\ objs[o].x = call.before[o].x
       /\ objs[o].y = call.before[o].y

====
